---------------------------- MODULE Spec2Model ----------------------------
(***************************************************************************)
(* Model of Dashboard.py: the persistent state store (recent / favorites), *)
(* the launcher (run_script), the configuration loader                     *)
(* (load_or_create_config) and the recursive search (search_scripts).      *)
(*                                                                         *)
(* Three specifications share the variables: Spec is a session of runs and *)
(* favorite toggles, SpecConfig the configuration document being loaded    *)
(* and edited, SpecSearch a search over a unit's tree.                     *)
(*                                                                         *)
(* Text that the program transforms (answers typed by the user, queries,   *)
(* file names) is a sequence of one-character strings, so that lower(),    *)
(* strip() and the substring test are computed, not assumed.               *)
(***************************************************************************)
EXTENDS Integers, Sequences, FiniteSets, TLC

VARIABLES
    stateFile,   \* dashboard_state.json on disk
    logFile,     \* dashboard.log on disk: the appended lines
    writable,    \* whether the disk accepts a write_text / an append
    cfg,         \* the session's configuration (the keys the launcher reads)
    pc,          \* where the session is: the menu or a step of run_script
    script,      \* run_script's script_path
    confirm,     \* cfg["confirm_before_run"] as run_script sees it
    ans,         \* run_script's ans: the answer typed, stripped and lowered
    args,        \* run_script's args
    child,       \* what subprocess.run did: the exit code, or it raised
    shown,       \* what run_script printed as the outcome of the run
    ret,         \* what run_script returned to its caller
    launched,    \* whether subprocess.run was called in this run
    ops,         \* number of user operations so far (bounds the model)
    added,       \* history: the resolved paths passed to add_recent
    prevRecent,  \* history: the recent list before the last add_recent
    tog,         \* history: the last two toggle_favorite calls
    pre,         \* history: the documents as they were when the run began
    wrote,       \* history: whether the last save_state call wrote the file
    cfgFile,     \* dashboard_config.json on disk
    cfgResult,   \* outcome of the last load_or_create_config call
    edits,       \* number of external edits of the config (bounds the model)
    tree,        \* the files under the unit directory
    query,       \* the query text typed / passed to the search
    searchResult \* outcome of the last search

storeVars  == <<stateFile, logFile, cfg, pc, script, confirm, ans, args,
                child, shown, ret, launched, ops, added, prevRecent, tog, pre,
                wrote>>
configVars == <<cfgFile, cfgResult, edits>>
searchVars == <<tree, query, searchResult>>
vars == <<storeVars, writable, configVars, searchVars>>

---------------------------------------------------------------------------
(* Bounds of the model.                                                    *)

NumScripts == 3    \* distinct script files
RecentLimit == 2   \* the session's recent_limit (the default is 15)
MaxOps == 3        \* user operations (runs and favorite toggles) per behaviour
MaxEdits == 3      \* external edits of the configuration document per behaviour
MaxQueryLen == 2   \* characters of a search query

---------------------------------------------------------------------------
(* Text: str.lower(), str.strip(), substring, ordering.                    *)

Chr(c) ==
    CASE c = " " -> 0 [] c = "'" -> 1 [] c = "." -> 2
      [] c = "A" -> 3 [] c = "B" -> 4 [] c = "N" -> 5 [] c = "P" -> 6
      [] c = "S" -> 7 [] c = "Y" -> 8 [] c = "_" -> 9
      [] c = "a" -> 10 [] c = "b" -> 11 [] c = "c" -> 12 [] c = "e" -> 13
      [] c = "g" -> 14 [] c = "i" -> 15 [] c = "n" -> 16 [] c = "p" -> 17
      [] c = "s" -> 18 [] c = "t" -> 19 [] c = "v" -> 20 [] c = "x" -> 21
      [] c = "y" -> 22
      [] OTHER -> 23

LowerChar(c) ==
    CASE c = "A" -> "a" [] c = "B" -> "b" [] c = "N" -> "n" [] c = "P" -> "p"
      [] c = "S" -> "s" [] c = "Y" -> "y"
      [] OTHER -> c

StrLower(s) == [i \in 1..Len(s) |-> LowerChar(s[i])]

IsSpace(c) == c = " "

RECURSIVE LStrip(_)
LStrip(s) ==
    IF s = <<>> THEN <<>>
    ELSE IF IsSpace(Head(s)) THEN LStrip(Tail(s)) ELSE s

RECURSIVE RStrip(_)
RStrip(s) ==
    IF s = <<>> THEN <<>>
    ELSE IF IsSpace(s[Len(s)]) THEN RStrip(SubSeq(s, 1, Len(s) - 1)) ELSE s

StrStrip(s) == RStrip(LStrip(s))

\* Python's `q in s` on strings
Contains(s, q) ==
    \E i \in 0..(Len(s) - Len(q)) : SubSeq(s, i + 1, i + Len(q)) = q

StartsWith(s, q) == Len(q) <= Len(s) /\ SubSeq(s, 1, Len(q)) = q

EndsWith(s, q) ==
    Len(q) <= Len(s) /\ SubSeq(s, Len(s) - Len(q) + 1, Len(s)) = q

\* Python's s <= t on strings (code-point order, here the order of Chr)
RECURSIVE StrLeq(_, _)
StrLeq(s, t) ==
    IF s = <<>> THEN TRUE
    ELSE IF t = <<>> THEN FALSE
    ELSE IF Head(s) = Head(t) THEN StrLeq(Tail(s), Tail(t))
    ELSE Chr(Head(s)) < Chr(Head(t))

Take(s, n) == SubSeq(s, 1, IF n < Len(s) THEN n ELSE Len(s))

Range(s) == {s[i] : i \in 1..Len(s)}

NoDup(s) == \A i, j \in 1..Len(s) : i # j => s[i] # s[j]

Count(s, x) == Cardinality({i \in 1..Len(s) : s[i] = x})

RECURSIVE Reverse(_)
Reverse(s) == IF s = <<>> THEN <<>> ELSE Append(Reverse(Tail(s)), Head(s))

---------------------------------------------------------------------------
(* Paths.  A script path is a file reached through some spelling: the      *)
(* absolute resolved one, or one through a symbolic link.  Path.resolve()  *)
(* maps every spelling to the resolved one.                                *)

ScriptFiles == 1..NumScripts

ScriptPaths ==
    {[file |-> i, form |-> "abs"] : i \in ScriptFiles}
        \cup {[file |-> 1, form |-> "link"]}

resolve(p) == [p EXCEPT !.form = "abs"]

NoScript == [file |-> 0, form |-> "none"]

---------------------------------------------------------------------------
(* State store: load_state, save_state, add_recent, toggle_favorite,       *)
(* is_favorite.  A document is its kind, the keys it holds, their values.  *)

EmptyState == [recent |-> <<>>, favorites |-> <<>>]

StateKeys == {"recent", "favorites"}

load_state(f) ==
    IF f.kind = "object"
    THEN [k \in StateKeys |-> IF k \in f.keys THEN f.obj[k] ELSE <<>>]
    ELSE EmptyState

save_state(f, state, w) ==
    IF w THEN [kind |-> "object", keys |-> StateKeys, obj |-> state] ELSE f

\* add_recent that keeps an earlier occurrence of the path
add_recent_nodedup(f, c, script_path, w) ==
    LET state == load_state(f)
        p == resolve(script_path)
        recent == <<p>> \o state.recent
    IN  save_state(f, [state EXCEPT !.recent = Take(recent, c.recent_limit)], w)

\* add_recent that does not truncate
add_recent_notrunc(f, c, script_path, w) ==
    LET state == load_state(f)
        p == resolve(script_path)
        Other(x) == x # p
        recent == <<p>> \o SelectSeq(state.recent, Other)
    IN  save_state(f, [state EXCEPT !.recent = recent], w)

\* add_recent that stores the path as given, not resolved
add_recent_noresolve(f, c, script_path, w) ==
    LET state == load_state(f)
        p == script_path
        Other(x) == x # p
        recent == <<p>> \o SelectSeq(state.recent, Other)
    IN  save_state(f, [state EXCEPT !.recent = Take(recent, c.recent_limit)], w)

add_recent(f, c, script_path, w) ==
    LET state == load_state(f)
        p == resolve(script_path)
        Other(x) == x # p
        recent == <<p>> \o SelectSeq(state.recent, Other)
    IN  save_state(f, [state EXCEPT !.recent = Take(recent, c.recent_limit)], w)

\* toggle_favorite whose removal branch writes the list back unchanged
toggle_favorite_noremove(f, script_path, w) ==
    LET state == load_state(f)
        p == resolve(script_path)
        favs == state.favorites
    IN  IF p \in Range(favs)
        THEN [file |-> save_state(f, state, w), ret |-> FALSE]
        ELSE [file |-> save_state(f, [state EXCEPT !.favorites =
                                         Append(favs, p)], w),
              ret |-> TRUE]

\* the document after the call, and the value returned
toggle_favorite(f, script_path, w) ==
    LET state == load_state(f)
        p == resolve(script_path)
        favs == state.favorites
        Other(x) == x # p
    IN  IF p \in Range(favs)
        THEN [file |-> save_state(f, [state EXCEPT !.favorites =
                                         SelectSeq(favs, Other)], w),
              ret |-> FALSE]
        ELSE [file |-> save_state(f, [state EXCEPT !.favorites =
                                         Append(favs, p)], w),
              ret |-> TRUE]

is_favorite(f, script_path) ==
    resolve(script_path) \in Range(load_state(f).favorites)

Recent == load_state(stateFile).recent
Favorites == load_state(stateFile).favorites

\* the file name of a script, as sorted(key=name.lower()) reads it
ScriptName(p) ==
    CASE p.file = 1 -> <<"a", ".", "p", "y">>
      [] p.file = 2 -> <<"B", ".", "p", "y">>
      [] OTHER -> <<"c", ".", "p", "y">>

\* sorted(out, key=lambda x: x.name.lower()): a stable sort
RECURSIVE InsertByName(_, _)
InsertByName(sorted, p) ==
    IF sorted = <<>> THEN <<p>>
    ELSE IF StrLeq(StrLower(ScriptName(Head(sorted))), StrLower(ScriptName(p)))
         THEN <<Head(sorted)>> \o InsertByName(Tail(sorted), p)
         ELSE <<p>> \o sorted

RECURSIVE SortByName(_)
SortByName(s) ==
    IF s = <<>> THEN <<>>
    ELSE InsertByName(SortByName(SubSeq(s, 1, Len(s) - 1)), s[Len(s)])

\* the stored paths that exist and are python files; every script of the
\* model exists
ExistingScripts == {resolve(p) : p \in ScriptPaths}

get_recent_scripts(f, c) ==
    LET Exists(x) == x \in ExistingScripts
    IN  Take(SelectSeq(load_state(f).recent, Exists), c.recent_limit)

get_favorite_scripts(f) ==
    LET Exists(x) == x \in ExistingScripts
    IN  SortByName(SelectSeq(load_state(f).favorites, Exists))


---------------------------------------------------------------------------
(* Log: log_event appends one line; a failure to write is swallowed.       *)

log_event(log, message, w) == IF w THEN Append(log, message) ELSE log

---------------------------------------------------------------------------
(* Launcher: run_script, one action per step.                              *)

\* answers typed at the "(s/n)" prompt
AnswerInputs ==
    { <<"s">>, <<" ", "S", " ">>, <<"n">>, <<"N", " ">>, <<"s", "i">>, <<>> }

\* raw argument lines typed at the prompt: none, and one with an unclosed
\* quote (shlex.split raises and raw.split() is used instead)
RawArgs == { "", "a 'b" }

split_args(raw) ==
    CASE raw = "" -> <<>>
      [] raw = "a 'b" -> <<"a", "'b">>

ExitCodes == {0, 3}

NoOutcome == [kind |-> "none", code |-> 0]
Cancelled == [kind |-> "cancelled", code |-> 0]
Completed(c) == [kind |-> "completed", code |-> c]
LaunchFailed == [kind |-> "error", code |-> 0]
NoneValue == [kind |-> "None", code |-> 0]

\* what subprocess.run can do: return with the child's exit code, or raise
NoChild == [kind |-> "none", code |-> 0]
Exited(c) == [kind |-> "exit", code |-> c]
Raised == [kind |-> "raised", code |-> 0]
LaunchResults == {Exited(c) : c \in ExitCodes} \cup {Raised}

\* what run_script prints after subprocess.run: "Finalizo con codigo: c", or
\* "Error al ejecutar: e"
\* report that prints a failed launch as an exit code
report_conflated(r) ==
    IF r.kind = "exit" THEN Completed(r.code) ELSE Completed(1)
report(r) == IF r.kind = "exit" THEN Completed(r.code) ELSE LaunchFailed

\* the snapshot taken when an operation begins
Snapshot(f, log, hist) ==
    [stateFile |-> f, logFile |-> log, nadded |-> Len(hist)]

\* ans = input(...).strip().lower()
read_answer(typed) == StrLower(StrStrip(typed))

Affirmative(a) == a = <<"s">>

\* run_script's steps after the confirmation, in the order of the code
AfterConfirm(c) == IF c.ask_args_before_run THEN "args" ELSE "log"
\* AfterAnswer that takes an empty answer for a yes
AfterAnswer_emptyyes(a, c) ==
    IF Affirmative(a) \/ a = <<>> THEN AfterConfirm(c) ELSE "pause"
AfterAnswer(a, c) == IF Affirmative(a) THEN AfterConfirm(c) ELSE "pause"
AfterArgs == "log"
\* AfterLog that goes to the launch without add_recent
AfterLog_skip == "launch"
AfterLog == "addrecent"
AfterAddRecent == "launch"
AfterLaunch == "pause"

\* a step of the session leaves the disk's mode, the configuration loader's
\* and the search's variables alone
StoreOnly == UNCHANGED <<writable, cfgFile, cfgResult, edits, tree, query,
                         searchResult>>

\* script_actions_menu, choices 2 and 3: run_script with the configured
\* confirm_before_run, or with it inverted for this run
RunScript(p, invert) ==
    /\ pc = "menu"
    /\ ops < MaxOps
    /\ ops' = ops + 1
    /\ script' = p
    /\ confirm' = (cfg.confirm_before_run # invert)
    /\ pre' = Snapshot(stateFile, logFile, added)
    /\ pc' = IF confirm' THEN "confirm" ELSE AfterConfirm(cfg)
    /\ UNCHANGED <<child, stateFile, logFile, cfg, ans, args, shown, ret,
                   launched, added, prevRecent, tog>>
    /\ UNCHANGED wrote
    /\ StoreOnly

Confirm(typed) ==
    /\ pc = "confirm"
    /\ ans' = read_answer(typed)
    /\ pc' = AfterAnswer(ans', cfg)
    /\ shown' = IF pc' = "pause" THEN Cancelled ELSE shown
    /\ UNCHANGED <<child, stateFile, logFile, cfg, script, confirm, args,
                   ret, launched, ops, added, prevRecent, tog, pre>>
    /\ UNCHANGED wrote
    /\ StoreOnly

AskArgs(raw) ==
    /\ pc = "args"
    /\ args' = split_args(raw)
    /\ pc' = AfterArgs
    /\ UNCHANGED <<child, stateFile, logFile, cfg, script, confirm, ans,
                   shown, ret, launched, ops, added, prevRecent, tog, pre>>
    /\ UNCHANGED wrote
    /\ StoreOnly

LogRun ==
    /\ pc = "log"
    /\ logFile' = log_event(logFile,
                     [event |-> "RUN", path |-> script, args |-> args],
                     writable)
    /\ pc' = AfterLog
    /\ UNCHANGED <<child, stateFile, cfg, script, confirm, ans, args, shown,
                   ret, launched, ops, added, prevRecent, tog, pre>>
    /\ UNCHANGED wrote
    /\ StoreOnly

AddRecent ==
    /\ pc = "addrecent"
    /\ stateFile' = add_recent(stateFile, cfg, script, writable)
    /\ added' = Append(added, resolve(script))
    /\ prevRecent' = Recent
    /\ pc' = AfterAddRecent
    /\ UNCHANGED <<child, logFile, cfg, script, confirm, ans, args, shown,
                   ret, launched, ops, tog, pre>>
    /\ wrote' = writable
    /\ StoreOnly

Launch(r) ==
    /\ pc = "launch"
    /\ launched' = TRUE
    /\ child' = r
    /\ shown' = report(r)
    /\ pc' = AfterLaunch
    /\ UNCHANGED <<stateFile, logFile, cfg, script, confirm, ans, args, ret,
                   ops, added, prevRecent, tog, pre>>
    /\ UNCHANGED wrote
    /\ StoreOnly

\* pause(), then run_script returns (it has no return value) and the
\* caller's loop goes round: run_script's locals are gone
Return ==
    /\ pc = "pause"
    /\ ret' = NoneValue
    /\ pc' = "menu"
    /\ script' = NoScript
    /\ confirm' = FALSE
    /\ ans' = <<>>
    /\ args' = <<>>
    /\ child' = NoChild
    /\ shown' = NoOutcome
    /\ launched' = FALSE
    /\ pre' = Snapshot(stateFile, logFile, added)
    /\ UNCHANGED <<stateFile, logFile, cfg, ops, added, prevRecent, tog>>
    /\ UNCHANGED wrote
    /\ StoreOnly

\* script_actions_menu, choice 6
ToggleFavorite(p) ==
    /\ pc = "menu"
    /\ cfg.favorites_enabled
    /\ ops < MaxOps
    /\ ops' = ops + 1
    /\ LET r == toggle_favorite(stateFile, p, writable)
           t == [path |-> resolve(p), ret |-> r.ret,
                 before |-> is_favorite(stateFile, p)]
       IN  /\ stateFile' = r.file
           /\ tog' = Append(IF Len(tog) = 2 THEN Tail(tog) ELSE tog, t)
           /\ pre' = Snapshot(r.file, logFile, added)
    /\ UNCHANGED <<child, logFile, cfg, pc, script, confirm, ans, args,
                   shown, ret, launched, added, prevRecent>>
    /\ wrote' = writable
    /\ StoreOnly

---------------------------------------------------------------------------
(* Configuration: default_config, load_or_create_config.  A JSON value is  *)
(* its type and its text; a document is its kind (absent, unreadable, not  *)
(* JSON, a JSON value that is no object, an object) and, for an object,    *)
(* the keys it holds with their values.                                    *)

Str(v) == [t |-> "str", v |-> v]
Lit(v) == [t |-> "lit", v |-> v]

ConfigKeys ==
    {"app_name", "base_dir", "units", "show_hidden_folders",
     "preferred_editor", "log_file", "confirm_before_run",
     "code_preview_lines", "ignore_dirs", "recent_limit",
     "favorites_enabled", "ask_args_before_run", "open_unit_folder_shortcut"}

\* the directory of Dashboard.py
ScriptDir == "/install"

default_config(base_dir) ==
    [k \in ConfigKeys |->
        CASE k = "app_name" -> Str("Dashboard de Proyectos")
          [] k = "base_dir" -> Str(base_dir)
          [] k = "units" -> Lit("{1: Unidad 1, 2: Unidad 2}")
          [] k = "show_hidden_folders" -> Lit("false")
          [] k = "preferred_editor" -> Str("code -n")
          [] k = "log_file" -> Str("dashboard.log")
          [] k = "confirm_before_run" -> Lit("true")
          [] k = "code_preview_lines" -> Lit("200")
          [] k = "ignore_dirs" -> Lit("[.venv, venv, __pycache__, .git, ...]")
          [] k = "recent_limit" -> Lit("15")
          [] k = "favorites_enabled" -> Lit("true")
          [] k = "ask_args_before_run" -> Lit("true")
          [] k = "open_unit_folder_shortcut" -> Lit("true")]

\* str(Path(v).expanduser().resolve()): an absolute resolved path is itself,
\* "~" is the home directory, a relative path is taken from the working
\* directory
resolve_dir(v) ==
    CASE v = "proj" -> "/cwd/proj"
      [] v = "~/proj" -> "/home/u/proj"
      [] OTHER -> v

AbsoluteDirs == {"/install", "/home/u/proj", "/cwd/proj"}

\* what an editor of the document can write for a key: another value of the
\* key's type; for base_dir also paths that are not absolute and a number
UserValues(k) ==
    IF k = "base_dir"
    THEN {Str("/home/u/proj"), Str("proj"), Str("~/proj"), Lit("5")}
    ELSE {Lit("user")}

UnknownKey == "theme"

NoKeys == [k \in {} |-> Lit("")]
Document(kind, obj) == [kind |-> kind, obj |-> obj]

\* the kinds of document that json.loads turns into something that is no dict
NonObjectKinds == {"array", "string", "number", "boolean", "null"}

\* lines 96-97: for k, v in defaults.items(): cfg.setdefault(k, v); the
\* variant below is cfg.update(defaults)
migrate_overwrite(obj, defaults) ==
    [k \in DOMAIN obj \cup DOMAIN defaults |->
        IF k \in DOMAIN defaults THEN defaults[k] ELSE obj[k]]

migrate(obj, defaults) ==
    [k \in DOMAIN obj \cup DOMAIN defaults |->
        IF k \in DOMAIN obj THEN obj[k] ELSE defaults[k]]

\* lines 91-92
normalize_base_dir(obj) ==
    IF "base_dir" \in DOMAIN obj
    THEN [obj EXCEPT !["base_dir"] = Str(resolve_dir(obj["base_dir"].v))]
    ELSE obj

\* the outcome of the call: whether it returned or raised, the dict returned,
\* the document left on disk
Returned(c, f) == [status |-> "ok", cfg |-> c, file |-> f]
RaisedError(f) == [status |-> "raised", cfg |-> NoKeys, file |-> f]

load_or_create_config(f, w) ==
    IF f.kind = "absent" \/ f.kind \in {"unreadable", "garbage"}
    THEN \* lines 78-88: defaults, written with no try around the write
         LET c == default_config(ScriptDir)
         IN  IF w THEN Returned(c, Document("object", c)) ELSE RaisedError(f)
    ELSE IF f.kind \in NonObjectKinds
    THEN \* line 91 or line 95: TypeError / AttributeError
         RaisedError(f)
    ELSE IF "base_dir" \in DOMAIN f.obj /\ f.obj["base_dir"].t # "str"
    THEN \* line 92: Path(5) raises TypeError
         RaisedError(f)
    ELSE LET c1 == normalize_base_dir(f.obj)
             base == IF "base_dir" \in DOMAIN c1
                     THEN c1["base_dir"].v ELSE ScriptDir
             c2 == migrate(c1, default_config(base))
         IN  Returned(c2, IF w THEN Document("object", c2) ELSE f)

NoConfigFile == Document("absent", NoKeys)
NoResult == [status |-> "none", cfg |-> NoKeys, from |-> NoConfigFile]

ConfigOnly == UNCHANGED <<stateFile, logFile, cfg, pc, script, confirm, ans,
                          args, child, shown, ret, launched, ops, added,
                          prevRecent, tog, pre, wrote, tree, query,
                          searchResult>>

\* main(), and main_menu's choice c: the configuration is (re)loaded
LoadConfig ==
    /\ LET r == load_or_create_config(cfgFile, writable)
       IN  /\ cfgResult' = [status |-> r.status, cfg |-> r.cfg,
                            from |-> cfgFile]
           /\ cfgFile' = r.file
    /\ UNCHANGED <<writable, edits>>
    /\ ConfigOnly

\* the document is edited outside the program: a key is removed
RemoveKey(k) ==
    /\ edits < MaxEdits
    /\ cfgFile.kind = "object"
    /\ k \in DOMAIN cfgFile.obj
    /\ cfgFile' = Document("object",
                     [j \in DOMAIN cfgFile.obj \ {k} |-> cfgFile.obj[j]])
    /\ edits' = edits + 1
    /\ cfgResult' = NoResult
    /\ UNCHANGED writable
    /\ ConfigOnly

\* ... a key is given another value, or a key the program does not know is
\* added
SetKey(k, v) ==
    /\ edits < MaxEdits
    /\ cfgFile.kind = "object"
    /\ cfgFile' = Document("object",
                     [j \in DOMAIN cfgFile.obj \cup {k} |->
                         IF j = k THEN v ELSE cfgFile.obj[j]])
    /\ cfgFile' # cfgFile
    /\ edits' = edits + 1
    /\ cfgResult' = NoResult
    /\ UNCHANGED writable
    /\ ConfigOnly

\* ... the document is deleted, made unreadable, or replaced by text that is
\* not JSON, by a JSON value that is no object, or by the object {}
ReplaceDocument(kind) ==
    /\ edits < MaxEdits
    /\ cfgFile' = Document(kind, NoKeys)
    /\ cfgFile' # cfgFile
    /\ edits' = edits + 1
    /\ cfgResult' = NoResult
    /\ UNCHANGED writable
    /\ ConfigOnly

\* the directory becomes read-only, or writable again
SetWritable(w) ==
    /\ writable # w
    /\ writable' = w
    /\ cfgResult' = NoResult
    /\ UNCHANGED <<cfgFile, edits>>
    /\ ConfigOnly

---------------------------------------------------------------------------
(* Search: search_scripts, and main_menu's choice s which calls it.  An    *)
(* entry of the unit's tree is the directories leading to it from the      *)
(* unit, its name, and whether it is a regular file.                       *)

Entry(dirs, name, isFile) == [dirs |-> dirs, name |-> name, isFile |-> isFile]

DotPy == <<".", "p", "y">>
DirSub == <<"s">>
DirVenv == <<".", "v", "e", "n", "v">>

\* a.py, s/B.py, s/a.py, __a.py, .venv/c.py, a.txt, and a directory x.py
CandidateEntries ==
    { Entry(<<>>, <<"a", ".", "p", "y">>, TRUE),
      Entry(<<DirSub>>, <<"B", ".", "p", "y">>, TRUE),
      Entry(<<DirSub>>, <<"a", ".", "p", "y">>, TRUE),
      Entry(<<>>, <<"_", "_", "a", ".", "p", "y">>, TRUE),
      Entry(<<DirVenv>>, <<"c", ".", "p", "y">>, TRUE),
      Entry(<<>>, <<"a", ".", "t", "x", "t">>, TRUE),
      Entry(<<>>, <<"x", ".", "p", "y">>, FALSE) }

\* the parts of unit_path itself: base_dir / "Unidad 1"
UnitParts == << <<"p">>, <<"U", "n", "i", "d", "a", "d", " ", "1">> >>

\* cfg["ignore_dirs"]: .venv, venv, .git (of the default list)
IgnoreDirs ==
    { DirVenv, <<"v", "e", "n", "v">>, <<".", "g", "i", "t">> }

QueryChars == {" ", "a", "B", "."}

RECURSIVE Texts(_)
Texts(n) ==
    IF n = 0 THEN { <<>> }
    ELSE LET shorter == Texts(n - 1)
         IN  shorter \cup {Append(t, c) : t \in shorter, c \in QueryChars}

Queries == Texts(MaxQueryLen)

\* p.parts
Parts(e) == UnitParts \o e.dirs \o <<e.name>>

\* the entries unit_path.rglob("*.py") yields that pass lines 317-323
Eligible(t, ignore_dirs) ==
    { e \in t :
        /\ EndsWith(e.name, DotPy)
        /\ e.isFile
        /\ ~StartsWith(e.name, <<"_", "_">>)
        /\ ~(\E i \in 1..Len(Parts(e)) : Parts(e)[i] \in ignore_dirs) }

\* sorted(hits, key=lambda x: x.name.lower()): every order of the hits that
\* is sorted by the key (entries with equal keys stay in the order the
\* directory walk produced, which the file system decides)
SortedByName(hits) ==
    { r \in [1..Cardinality(hits) -> hits] :
        /\ \A i, j \in DOMAIN r : i # j => r[i] # r[j]
        /\ \A i, j \in DOMAIN r :
              i < j => StrLeq(StrLower(r[i].name), StrLower(r[j].name)) }

\* the results search_scripts can return; walk_ok is false when the walk
\* raises (a directory that cannot be read) and the except returns []
search_scripts(ignore_dirs, t, q, walk_ok) ==
    LET qq == StrStrip(StrLower(q))
        hits == { e \in Eligible(t, ignore_dirs) :
                    Contains(StrLower(e.name), qq) }
    IN  IF walk_ok THEN SortedByName(hits) ELSE { <<>> }

\* line 415: q = input(...).strip(); the variant below does not strip
menu_query_nostrip(typed) == typed
menu_query(typed) == StrStrip(typed)

NoSearch ==
    [status |-> "none", by |-> "none", walk_ok |-> TRUE, hits |-> <<>>]

SearchOnly == UNCHANGED <<stateFile, logFile, writable, cfg, pc, script,
                          confirm, ans, args, child, shown, ret, launched,
                          ops, added, prevRecent, tog, pre, wrote, cfgFile,
                          cfgResult, edits, tree>>

\* search_scripts called with the text q
SearchScripts(q, walk_ok) ==
    /\ searchResult.status = "none"
    /\ query' = q
    /\ \E r \in search_scripts(IgnoreDirs, tree, q, walk_ok) :
          searchResult' = [status |-> "searched", by |-> "call",
                           walk_ok |-> walk_ok, hits |-> r]
    /\ SearchOnly

\* main_menu, choice s, lines 415-418: an empty q goes back to the menu
\* with no search made
MenuSearchBlank(typed) ==
    /\ searchResult.status = "none"
    /\ menu_query(typed) = <<>>
    /\ query' = typed
    /\ searchResult' = [status |-> "skipped", by |-> "menu",
                        walk_ok |-> TRUE, hits |-> <<>>]
    /\ SearchOnly

\* main_menu, choice s, lines 415-423: a search is made with q
MenuSearch(typed, walk_ok) ==
    /\ searchResult.status = "none"
    /\ menu_query(typed) # <<>>
    /\ query' = typed
    /\ \E r \in search_scripts(IgnoreDirs, tree, menu_query(typed), walk_ok) :
          searchResult' = [status |-> "searched", by |-> "menu",
                           walk_ok |-> walk_ok, hits |-> r]
    /\ SearchOnly

\* the results are dealt with and main_menu's loop goes round
SearchDone ==
    /\ searchResult.status # "none"
    /\ query' = <<>>
    /\ searchResult' = NoSearch
    /\ SearchOnly

---------------------------------------------------------------------------
(* The session: a fresh installation's state document (absent, unreadable  *)
(* as JSON, not an object, or an object with no keys), a configuration     *)
(* with the default recent_limit, favorites enabled (the default) and any  *)
(* setting of the two flags run_script reads.                              *)

InitialStateFiles ==
    {[kind |-> k, keys |-> {}, obj |-> EmptyState] :
        k \in {"absent", "garbage", "nonobject", "object"}}

SessionConfigs ==
    [confirm_before_run : BOOLEAN, ask_args_before_run : BOOLEAN,
     favorites_enabled : {TRUE}, recent_limit : {RecentLimit}]

InitStore ==
    /\ stateFile \in InitialStateFiles
    /\ logFile = <<>>
    /\ cfg \in SessionConfigs
    /\ pc = "menu"
    /\ script = NoScript
    /\ confirm = FALSE
    /\ ans = <<>>
    /\ args = <<>>
    /\ child = NoChild
    /\ shown = NoOutcome
    /\ ret = NoOutcome
    /\ launched = FALSE
    /\ ops = 0
    /\ added = <<>>
    /\ prevRecent = <<>>
    /\ tog = <<>>
    /\ pre = Snapshot(stateFile, logFile, added)
    /\ wrote = TRUE

IdleConfig ==
    /\ cfgFile = NoConfigFile
    /\ cfgResult = NoResult
    /\ edits = 0

IdleSearch ==
    /\ tree = {}
    /\ query = <<>>
    /\ searchResult = NoSearch

Init ==
    /\ InitStore
    /\ writable = TRUE
    /\ IdleConfig
    /\ IdleSearch

Next ==
    \/ \E p \in ScriptPaths, invert \in BOOLEAN : RunScript(p, invert)
    \/ \E a \in AnswerInputs : Confirm(a)
    \/ \E raw \in RawArgs : AskArgs(raw)
    \/ LogRun
    \/ AddRecent
    \/ \E r \in LaunchResults : Launch(r)
    \/ Return
    \/ \E p \in ScriptPaths : ToggleFavorite(p)

Spec == Init /\ [][Next]_vars

\* The configuration loader on its own: a fresh installation, whose document
\* is then loaded and edited outside the program.
IdleStore ==
    /\ stateFile = [kind |-> "absent", keys |-> {}, obj |-> EmptyState]
    /\ logFile = <<>>
    /\ cfg = [confirm_before_run |-> TRUE, ask_args_before_run |-> TRUE,
              favorites_enabled |-> TRUE, recent_limit |-> RecentLimit]
    /\ pc = "menu"
    /\ script = NoScript
    /\ confirm = FALSE
    /\ ans = <<>>
    /\ args = <<>>
    /\ child = NoChild
    /\ shown = NoOutcome
    /\ ret = NoOutcome
    /\ launched = FALSE
    /\ ops = 0
    /\ added = <<>>
    /\ prevRecent = <<>>
    /\ tog = <<>>
    /\ pre = Snapshot(stateFile, logFile, added)
    /\ wrote = TRUE

InitConfig ==
    /\ IdleStore
    /\ writable = TRUE
    /\ IdleConfig
    /\ IdleSearch

NextConfig ==
    \/ LoadConfig
    \/ \E k \in ConfigKeys : RemoveKey(k)
    \/ \E k \in ConfigKeys \cup {UnknownKey} :
          \E v \in UserValues(k) : SetKey(k, v)
    \/ \E kind \in NonObjectKinds \cup
                       {"absent", "unreadable", "garbage", "object"} :
          ReplaceDocument(kind)
    \/ \E w \in BOOLEAN : SetWritable(w)

SpecConfig == InitConfig /\ [][NextConfig]_vars

\* The search on its own: any tree made of the candidate entries.
InitSearch ==
    /\ IdleStore
    /\ writable = TRUE
    /\ IdleConfig
    /\ tree \in SUBSET CandidateEntries
    /\ query = <<>>
    /\ searchResult = NoSearch

NextSearch ==
    \/ \E q \in Queries, walk_ok \in BOOLEAN : SearchScripts(q, walk_ok)
    \/ \E typed \in Queries : MenuSearchBlank(typed)
    \/ \E typed \in Queries, walk_ok \in BOOLEAN : MenuSearch(typed, walk_ok)
    \/ SearchDone

SpecSearch == InitSearch /\ [][NextSearch]_vars

\* The session on a disk that can stop accepting writes (a read-only
\* directory, a full disk) and accept them again, at any moment.
NextFault ==
    \/ Next
    \/ \E w \in BOOLEAN : SetWritable(w)

SpecFault == Init /\ [][NextFault]_vars

---------------------------------------------------------------------------
(* Claims about the state store and the launcher, checked under Spec.      *)

RunRecord == [event |-> "RUN", path |-> script, args |-> args]

\* C1: after any sequence of script runs and favorite toggles, starting from
\* an empty state document and with a fixed positive recent_limit, the
\* stored recent list holds no path twice and is never longer than
\* recent_limit.
C1_RecentBoundedNoDup ==
    /\ NoDup(Recent)
    /\ Len(Recent) <= cfg.recent_limit

\* C1's case: more runs than recent_limit, one script run again
C1_Witness ==
    /\ Len(added) > RecentLimit
    /\ ~NoDup(added)
    /\ Len(Recent) = RecentLimit

\* C2: add_recent called recent_limit + k times (k >= 0) with pairwise
\* distinct paths, from an empty recent list, leaves exactly recent_limit
\* entries: the last recent_limit paths added, most recent first.
C2_LastLimitMostRecentFirst ==
    (NoDup(added) /\ Len(added) >= cfg.recent_limit) =>
        /\ Len(Recent) = cfg.recent_limit
        /\ Recent = Take(Reverse(added), cfg.recent_limit)

\* C2's case: k >= 1
C2_Witness ==
    /\ NoDup(added)
    /\ Len(added) > RecentLimit

\* C3: add_recent(p) followed at once by add_recent(p) leaves the list a
\* single add_recent(p) left, with p at the front and occurring once; from
\* an empty list the result is the one-element list [p].
C3_AddRecentIdempotent ==
    LET n == Len(added) IN
    (n >= 2 /\ added[n] = added[n - 1]) =>
        /\ Recent = prevRecent
        /\ Recent # <<>>
        /\ Head(Recent) = added[n]
        /\ Count(Recent, added[n]) = 1
        /\ (n = 2 => Recent = <<added[n]>>)

\* C3's case: a script (here reached through two spellings of its path) run
\* twice in a row after another one
C3_Witness ==
    /\ Len(added) = 3
    /\ added[2] = added[3]
    /\ added[1] # added[2]
    /\ Len(logFile) = 3
    /\ logFile[2].path # logFile[3].path

\* C4: for a path that is not a favorite, toggle_favorite called twice in
\* succession returns true then false, and is_favorite read after each call
\* equals the value that call returned.
C4_ToggleTwice ==
    /\ tog # <<>> =>
          is_favorite(stateFile, tog[Len(tog)].path) = tog[Len(tog)].ret
    /\ (Len(tog) = 2 /\ tog[1].path = tog[2].path /\ ~tog[1].before) =>
          (tog[1].ret = TRUE /\ tog[2].ret = FALSE)

\* C4's case: the second of two toggles of one path
C4_Witness ==
    /\ Len(tog) = 2
    /\ tog[1].path = tog[2].path
    /\ ~tog[1].before
    /\ ~is_favorite(stateFile, tog[2].path)

\* C5: a run with confirmation required and any answer other than "s" ends
\* cancelled, with the state document (recent, favorites) and the log as
\* they were before the call and no child process launched.
C5_CancelLeavesState ==
    (confirm /\ pc \notin {"menu", "confirm"} /\ ans # <<"s">>) =>
        /\ pc = "pause"
        /\ shown = Cancelled
        /\ stateFile = pre.stateFile
        /\ logFile = pre.logFile
        /\ Len(added) = pre.nadded
        /\ ~launched
        /\ child = NoChild

\* C5's case: "n" answered when something is already stored
C5_Witness ==
    /\ pc = "pause"
    /\ confirm
    /\ ans = <<"n">>
    /\ shown = Cancelled
    /\ Recent # <<>>

\* C6, as claimed: run_script returns the outcome of the launch to its
\* caller (the exit code as Completed(code), a launch failure as a distinct
\* error status).
C6_ReturnsOutcome ==
    [][(pc = "pause" /\ launched /\ pc' = "menu") => ret' = report(child)]_vars

\* C6, amended: run_script returns nothing (None) whatever the outcome; the
\* outcome is printed: the child's exit code when subprocess.run returned,
\* an error message, which no exit code produces, when it raised; and the
\* script's resolved path is then at the front of recent.
C6_PrintsOutcome ==
    /\ (pc = "pause" /\ launched) =>
          /\ child.kind = "exit" => shown = Completed(child.code)
          /\ child.kind = "raised" => shown.kind = "error"
          /\ shown.kind = "error" => child.kind = "raised"
          /\ Recent # <<>>
          /\ Head(Recent) = resolve(script)
    /\ ret \in {NoOutcome, NoneValue}

\* C6's case: the child exited with code 3
C6_Witness ==
    /\ pc = "pause"
    /\ child = Exited(3)
    /\ shown = Completed(3)
    /\ Head(Recent) = resolve(script)

\* C10: in every run that is not cancelled, the RUN record is appended to
\* the log and add_recent is called for the script exactly once, both before
\* the child is launched, whatever the launch does afterwards.
C10_LogAndRecentOnceBeforeLaunch ==
    /\ (pc = "launch" \/ launched) =>
          /\ logFile = Append(pre.logFile, RunRecord)
          /\ Len(added) = pre.nadded + 1
          /\ added[Len(added)] = resolve(script)
          /\ Recent # <<>>
          /\ Head(Recent) = resolve(script)
    /\ (pc = "pause" /\ shown # Cancelled) => launched

\* C10's case: the launch itself failed
C10_Witness ==
    /\ launched
    /\ child = Raised
    /\ pc = "pause"
    /\ Len(logFile) = Len(pre.logFile) + 1

---------------------------------------------------------------------------
(* Claims about the configuration loader, checked under SpecConfig.        *)

Loaded == cfgResult.status # "none"
LoadedObject ==
    /\ Loaded
    /\ cfgResult.from.kind = "object"
    /\ ("base_dir" \in DOMAIN cfgResult.from.obj =>
           cfgResult.from.obj["base_dir"].t = "str")

\* C7, as claimed: for a document missing any subset of the default keys,
\* the loader returns a document with every default key, every present
\* value preserved and every missing one filled from the defaults.
C7_PresentValuesPreserved ==
    LoadedObject =>
        /\ cfgResult.status = "ok"
        /\ ConfigKeys \subseteq DOMAIN cfgResult.cfg
        /\ \A k \in DOMAIN cfgResult.from.obj :
              /\ k \in DOMAIN cfgResult.cfg
              /\ cfgResult.cfg[k] = cfgResult.from.obj[k]
        /\ \A k \in ConfigKeys \ DOMAIN cfgResult.from.obj :
              cfgResult.cfg[k] = default_config(ScriptDir)[k]

\* C7, amended: for a document that is an object missing any subset of the
\* default keys (base_dir, when present, a string), the loader returns a
\* document with every default key; every present value is preserved,
\* unknown keys included, except base_dir, which is returned as an absolute
\* resolved path (unchanged when it already is one); every missing key has
\* its default value.
C7_PreservedButBaseDir ==
    LoadedObject =>
        /\ cfgResult.status = "ok"
        /\ DOMAIN cfgResult.cfg = ConfigKeys \cup DOMAIN cfgResult.from.obj
        /\ \A k \in DOMAIN cfgResult.from.obj \ {"base_dir"} :
              cfgResult.cfg[k] = cfgResult.from.obj[k]
        /\ cfgResult.cfg["base_dir"].t = "str"
        /\ cfgResult.cfg["base_dir"].v \in AbsoluteDirs
        /\ ("base_dir" \in DOMAIN cfgResult.from.obj
              /\ cfgResult.from.obj["base_dir"].v \in AbsoluteDirs) =>
                 cfgResult.cfg["base_dir"] = cfgResult.from.obj["base_dir"]
        /\ \A k \in ConfigKeys \ DOMAIN cfgResult.from.obj :
              cfgResult.cfg[k] = default_config(ScriptDir)[k]

\* C7's case: a document with a key missing, a key set by the user and a
\* relative base_dir
C7_Witness ==
    /\ cfgResult.status = "ok"
    /\ cfgResult.from.kind = "object"
    /\ ConfigKeys \ DOMAIN cfgResult.from.obj # {}
    /\ "base_dir" \in DOMAIN cfgResult.from.obj
    /\ cfgResult.from.obj["base_dir"] = Str("proj")
    /\ \E k \in DOMAIN cfgResult.from.obj :
          cfgResult.from.obj[k] = Lit("user")

\* C8: the loader never fails to its caller: with the document absent,
\* unreadable, unparsable, or a JSON value that is no object, and whether or
\* not the write that follows succeeds, it returns a complete default
\* configuration instead of raising.
C8_LoadNeverRaises ==
    Loaded =>
        /\ cfgResult.status = "ok"
        /\ cfgResult.from.kind # "object" =>
              cfgResult.cfg = default_config(ScriptDir)

---------------------------------------------------------------------------
(* Claims about the search, checked under SpecSearch.                      *)

Blank(q) == StrStrip(q) = <<>>

\* C9, as claimed: search_scripts called with an empty or whitespace-only
\* query returns an empty result, for every tree.
C9_BlankQueryEmptyResult ==
    (searchResult.by = "call" /\ Blank(query)) => searchResult.hits = <<>>

\* C9, amended: main_menu makes no search for an empty or whitespace-only
\* query and has no result for it; search_scripts itself, called with such
\* a query, returns every script of the tree that is a regular *.py file,
\* not named __*, with no ignored directory in its path (all of them as
\* long as the walk does not raise), so an empty result only for a tree
\* with no such script.
C9_BlankQueryMenuSkipsCallReturnsAll ==
    /\ (searchResult.by = "menu" /\ Blank(query)) =>
          /\ searchResult.status = "skipped"
          /\ searchResult.hits = <<>>
    /\ (searchResult.by = "call" /\ Blank(query) /\ searchResult.walk_ok) =>
          /\ Range(searchResult.hits) = Eligible(tree, IgnoreDirs)
          /\ Len(searchResult.hits) = Cardinality(Eligible(tree, IgnoreDirs))

\* C9's case: search_scripts called with a whitespace-only query on a tree
\* that holds scripts and entries that are not
C9_Witness ==
    /\ searchResult.by = "call"
    /\ searchResult.walk_ok
    /\ query = <<" ">>
    /\ tree = CandidateEntries
    /\ Len(searchResult.hits) = 3

---------------------------------------------------------------------------
(* Claim about failing writes, checked under SpecFault.                    *)

\* C11: when writing the state document fails, the failure is swallowed and
\* the session goes on with what it holds in memory: a toggle_favorite or
\* add_recent whose write failed is still visible to every later
\* is_favorite, get_favorite_scripts and get_recent_scripts read.
C11_FailedWriteStillVisible ==
    ~wrote =>
        /\ tog # <<>> =>
              LET t == tog[Len(tog)] IN
              /\ is_favorite(stateFile, t.path) = t.ret
              /\ (t.path \in Range(get_favorite_scripts(stateFile))) = t.ret
        /\ added # <<>> =>
              LET r == get_recent_scripts(stateFile, cfg) IN
              /\ r # <<>>
              /\ Head(r) = added[Len(added)]

=============================================================================
